---- MODULE Spec2Model ----
(***************************************************************************)
(* Model of tools/python/repl/repl.py: a launcher that captures its own    *)
(* module globals as the namespace of an interactive console, registers a  *)
(* tab-completion callback over that namespace, installs a platform        *)
(* dependent key binding and then runs code.InteractiveConsole.interact(). *)
(*                                                                         *)
(* The launcher's statements are modelled one action each.  The calls it   *)
(* makes into the standard library (dict.update, rlcompleter.Completer,    *)
(* code.InteractiveConsole) are modelled by what CPython 3.11 does there.  *)
(* Init is the state after the four imports of lines 1-4 have succeeded.   *)
(*                                                                         *)
(* Identifiers and typed text are sequences of one-character strings, so   *)
(* that str.startswith and the slice comparison word[:n] == text of the    *)
(* completer are computed and not assumed.  A dict is a sequence of        *)
(* key/value pairs in insertion order, as in CPython.                      *)
(***************************************************************************)
EXTENDS Integers, Sequences, FiniteSets, TLC

VARIABLES
    platform,      \* sys.platform of the host
    pc,            \* the launcher's position: "L8" .. "L18", "prompt", "done"
    heap,          \* the two dict objects: G = module globals, B = builtins.__dict__
    completer,     \* the namespace readline's completer is bound to ("none": not set)
    bindings,      \* the strings handed to readline.parse_and_bind, in order
    stdout,        \* what the launcher itself printed (lines 12 and 15)
    consoleLocals, \* InteractiveConsole.locals: the dict the console executes in
    prompts,       \* how many prompts the loop has written
    lastEvent,     \* the last input event: "none", "line", "interrupt", "eof"
    lastLine,      \* the line last submitted
    prevHeap,      \* the heap as it was when that line was submitted
    display,       \* what executing that line wrote to stdout (the displayed result)
    diag,          \* the diagnostic executing that line wrote to stderr ("" if none)
    exitCode,      \* the process exit status, -1 while the process runs
    completion     \* the completion last invoked at this prompt: its text and candidates

vars == <<platform, pc, heap, completer, bindings, stdout, consoleLocals, prompts,
          lastEvent, lastLine, prevHeap, display, diag, exitCode, completion>>

\* How many inputs (lines, interrupts) one modelled session submits.
MaxLines == 3

----------------------------------------------------------------------------
\* Identifiers

n_code == <<"c", "o", "d", "e">>
n_readline == <<"r", "e", "a", "d", "l", "i", "n", "e">>
n_rlcompleter == <<"r", "l", "c", "o", "m", "p", "l", "e", "t", "e", "r">>
n_sys == <<"s", "y", "s">>
n_vs == <<"v", "s">>
n_x == <<"x">>
n_y == <<"y">>
n_vars == <<"v", "a", "r", "s">>
n_globals == <<"g", "l", "o", "b", "a", "l", "s">>
n_underscore == <<"_">>

\* Values of sys.platform the launcher is run under.
Platforms ==
    { <<"l", "i", "n", "u", "x">>, <<"l", "i", "n", "u", "x", "2">>,
      <<"d", "a", "r", "w", "i", "n">>, <<"w", "i", "n", "3", "2">> }

\* str.startswith
StartsWith(s, p) == Len(p) <= Len(s) /\ SubSeq(s, 1, Len(p)) = p

----------------------------------------------------------------------------
\* Values

Val(t, id, v) == [t |-> t, id |-> id, v |-> v]
None == Val("NoneType", "", 0)
IntVal(n) == Val("int", "", n)
Module(m) == Val("module", m, 0)
Builtin(f) == Val("builtin_function_or_method", f, 0)
DictRef(r) == Val("dict", r, 0)

\* Dicts: sequences of [k, v] in insertion order

Has(d, k) == \E i \in 1..Len(d) : d[i].k = k
Get(d, k) == d[CHOOSE i \in 1..Len(d) : d[i].k = k].v
Set(d, k, v) ==
    IF Has(d, k)
    THEN [i \in 1..Len(d) |-> IF d[i].k = k THEN [k |-> k, v |-> v] ELSE d[i]]
    ELSE Append(d, [k |-> k, v |-> v])
Delete(d, k) == SelectSeq(d, LAMBDA e : e.k # k)

\* dict.update(other): every item of other is stored, in other's order
RECURSIVE Update(_, _)
Update(d, other) ==
    IF other = <<>> THEN d
    ELSE Update(Set(d, Head(other).k, Head(other).v), Tail(other))

\* The launcher's module globals after the imports of lines 1-4.
ModuleGlobals ==
    << [k |-> n_code, v |-> Module("code")],
       [k |-> n_readline, v |-> Module("readline")],
       [k |-> n_rlcompleter, v |-> Module("rlcompleter")],
       [k |-> n_sys, v |-> Module("sys")] >>

\* builtins.__dict__, cut to two functions: vars takes parameters, globals none.
BuiltinsDict ==
    << [k |-> n_vars, v |-> Builtin("vars")],
       [k |-> n_globals, v |-> Builtin("globals")] >>

\* globals() at module level: the module's own dict object, not a copy
GlobalsRef == "G"
\* locals() at module level: the same dict object
LocalsRef == "G"

----------------------------------------------------------------------------
\* Source text of the submitted lines: expressions and statements

Const(v) == [op |-> "const", val |-> v]
Name(n) == [op |-> "name", id |-> n]
Add(a, b) == [op |-> "add", l |-> a, r |-> b]
Walrus(n, e) == [op |-> "walrus", id |-> n, e |-> e]

Assign(n, e) == [kind |-> "assign", target |-> n, value |-> e]
Expr(e) == [kind |-> "expr", value |-> e]
Del(n) == [kind |-> "del", target |-> n]
SysExit(a) == [kind |-> "sysexit", arg |-> a]
Malformed == [kind |-> "malformed"]

\* The lines a user submits in the modelled sessions.
Lines ==
    << Assign(n_x, Const(IntVal(5))),                              \* x = 5
       Assign(n_y, Name(n_x)),                                     \* y = x
       Expr(Name(n_x)),                                            \* x
       Expr(Name(n_y)),                                            \* y
       Expr(Add(Const(IntVal(2)), Const(IntVal(2)))),              \* 2 + 2
       Expr(Add(Walrus(n_x, Const(IntVal(1))), Name(n_y))),        \* (x := 1) + y
       Expr(Const(None)),                                          \* None
       Expr(Name(n_underscore)),                                   \* _
       Del(n_x),                                                   \* del x
       Assign(n_x, Name(n_vars)),                                  \* x = vars
       Assign(n_vars, Const(IntVal(1))),                           \* vars = 1
       Del(n_vars),                                                \* del vars
       Assign(n_sys, Const(IntVal(1))),                            \* sys = 1
       SysExit(None),                                              \* sys.exit()
       SysExit(IntVal(3)),                                         \* sys.exit(3)
       SysExit(IntVal(256)),                                       \* sys.exit(256)
       Malformed >>                                                \* )(

----------------------------------------------------------------------------
\* exec(code, self.locals): name lookup, evaluation, statements

Outcome(exc, val, h) == [exc |-> exc, val |-> val, heap |-> h]

\* LOAD_NAME: the namespace first, then builtins
Resolve(h, ns, n) ==
    IF Has(h[ns], n) THEN Outcome("", Get(h[ns], n), h)
    ELSE IF Has(h.B, n) THEN Outcome("", Get(h.B, n), h)
    ELSE Outcome("NameError", None, h)

\* operands left to right; a binding made before the failure stays made
RECURSIVE Eval(_, _, _)
Eval(e, h, ns) ==
    CASE e.op = "const" -> Outcome("", e.val, h)
      [] e.op = "name" -> Resolve(h, ns, e.id)
      [] e.op = "walrus" ->
            LET r == Eval(e.e, h, ns)
            IN  IF r.exc # "" THEN r
                ELSE Outcome("", r.val, [r.heap EXCEPT ![ns] = Set(@, e.id, r.val)])
      [] e.op = "add" ->
            LET a == Eval(e.l, h, ns)
            IN  IF a.exc # "" THEN a
                ELSE LET b == Eval(e.r, a.heap, ns)
                     IN  IF b.exc # "" THEN b
                         ELSE IF a.val.t = "int" /\ b.val.t = "int"
                              THEN Outcome("", IntVal(a.val.v + b.val.v), b.heap)
                              ELSE Outcome("TypeError", None, b.heap)

\* repr(): decimal digits for an int
DigitChar(d) == <<"0", "1", "2", "3", "4", "5", "6", "7", "8", "9">>[d + 1]
RECURSIVE Digits(_)
Digits(n) == IF n < 10 THEN <<DigitChar(n)>> ELSE Digits(n \div 10) \o <<DigitChar(n % 10)>>
Repr(v) ==
    CASE v.t = "int" -> Digits(v.v)
      [] v.t = "NoneType" -> <<"None">>
      [] v.t = "builtin_function_or_method" -> <<"<built-in function ", v.id, ">">>
      [] OTHER -> <<"<", v.t, " ", v.id, ">">>

Shown(exc, h, out) == [exc |-> exc, heap |-> h, out |-> out]

\* the source compiled in 'exec' mode: an expression's value is never shown
DisplayHook_Silent(v, h) == Shown("", h, <<>>)

\* sys.displayhook: None is not shown; anything else is printed and kept as builtins._
DisplayHook(v, h) ==
    IF v = None THEN Shown("", h, <<>>)
    ELSE Shown("", [h EXCEPT !.B = Set(@, n_underscore, v)], Repr(v))

\* One complete statement compiled in 'single' mode and executed in namespace ns.
RunStatement(s, h, ns) ==
    CASE s.kind = "assign" ->
            LET r == Eval(s.value, h, ns)
            IN  IF r.exc # "" THEN Shown(r.exc, r.heap, <<>>)
                ELSE Shown("", [r.heap EXCEPT ![ns] = Set(@, s.target, r.val)], <<>>)
      [] s.kind = "del" ->
            IF Has(h[ns], s.target)
            THEN Shown("", [h EXCEPT ![ns] = Delete(@, s.target)], <<>>)
            ELSE Shown("NameError", h, <<>>)
      [] s.kind = "expr" ->
            LET r == Eval(s.value, h, ns)
            IN  IF r.exc # "" THEN Shown(r.exc, r.heap, <<>>)
                ELSE DisplayHook(r.val, r.heap)
      [] s.kind = "sysexit" ->
            LET r == Resolve(h, ns, n_sys)
            IN  IF r.exc # "" THEN Shown(r.exc, h, <<>>)
                ELSE IF r.val # Module("sys") THEN Shown("AttributeError", h, <<>>)
                ELSE Shown("SystemExit", h, <<>>)

\* exec(code, dict(self.locals)): the statement runs in a copy of the namespace
RunCode_InCopy(s, h, ns) ==
    LET r == RunStatement(s, h, ns)
    IN  Shown(r.exc, [r.heap EXCEPT ![ns] = h[ns]], r.out)

\* runcode: exec(code, self.locals), in the console's own dict
RunCode(s, h, ns) == RunStatement(s, h, ns)

\* runsource: a line that does not compile is reported by showsyntaxerror and not run
RunSource(line, h, ns) ==
    IF line.kind = "malformed" THEN Shown("SyntaxError", h, <<>>)
    ELSE RunCode(line, h, ns)

\* the exit status is lost and the process ends with 0
ExitStatus_Dropped(arg) == 0

\* The status the process ends with when SystemExit(arg) reaches the top level.
ExitStatus(arg) == IF arg = None THEN 0 ELSE arg.v % 256

----------------------------------------------------------------------------
\* rlcompleter.Completer(namespace).complete

n_try == <<"t", "r", "y">>
n_yield == <<"y", "i", "e", "l", "d">>

\* keyword.kwlist + keyword.softkwlist, cut to three words, in their order.
KwList == <<n_try, n_yield, n_underscore>>

KeywordCandidate(word) ==
    IF word \in {<<"f", "i", "n", "a", "l", "l", "y">>, n_try} THEN word \o <<":">>
    ELSE IF word \notin { <<"F", "a", "l", "s", "e">>, <<"N", "o", "n", "e">>,
                          <<"T", "r", "u", "e">>, <<"b", "r", "e", "a", "k">>,
                          <<"c", "o", "n", "t", "i", "n", "u", "e">>,
                          <<"p", "a", "s", "s">>, <<"e", "l", "s", "e">>, n_underscore }
         THEN word \o <<" ">>
    ELSE word

Callable(val) == val.t = "builtin_function_or_method"
\* not inspect.signature(val).parameters
NoParameters(val) == val.id = "globals"

\* the postfix is appended without asking callable(val)
CallablePostfix_Always(val, word) == word \o <<"(">>

\* _callable_postfix
CallablePostfix(val, word) ==
    IF Callable(val)
    THEN IF NoParameters(val) THEN word \o <<"(", ")">> ELSE word \o <<"(">>
    ELSE word

\* word[:n]
Slice(word, n) == SubSeq(word, 1, IF n <= Len(word) THEN n ELSE Len(word))

Matching(matches, seen) == [matches |-> matches, seen |-> seen]

RECURSIVE ScanKeywords(_, _, _)
ScanKeywords(words, text, acc) ==
    IF words = <<>> THEN acc
    ELSE LET word == Head(words)
         IN  IF Slice(word, Len(text)) = text
             THEN ScanKeywords(Tail(words), text,
                      Matching(Append(acc.matches, KeywordCandidate(word)),
                               acc.seen \cup {word}))
             ELSE ScanKeywords(Tail(words), text, acc)

RECURSIVE ScanDict(_, _, _)
ScanDict(items, text, acc) ==
    IF items = <<>> THEN acc
    ELSE LET word == Head(items).k
             val == Head(items).v
         IN  IF Slice(word, Len(text)) = text /\ word \notin acc.seen
             THEN ScanDict(Tail(items), text,
                      Matching(Append(acc.matches, CallablePostfix(val, word)),
                               acc.seen \cup {word}))
             ELSE ScanDict(Tail(items), text, acc)

\* global_matches: keywords, then the namespace, then builtins, each name once
GlobalMatches(h, ns, text) ==
    LET kw == ScanKeywords(KwList, text, Matching(<<>>, {}))
        own == ScanDict(h[ns], text, kw)
    IN  ScanDict(h.B, text, own).matches

Whitespace == {" ", "\t", "\n"}
\* not text.strip()
Blank(text) == \A i \in 1..Len(text) : text[i] \in Whitespace

Candidate(s) == [some |-> TRUE, s |-> s]
NoCandidate == [some |-> FALSE, s |-> <<>>]

\* complete(text, state) for text without a dot; readline is available, so blank
\* text inserts a tab and returns '' at state 0.  The match list is computed at
\* state 0 and indexed afterwards; the namespace does not change in between.
Complete(h, ns, text, state) ==
    IF Blank(text)
    THEN IF state = 0 THEN Candidate(<<>>) ELSE NoCandidate
    ELSE LET m == GlobalMatches(h, ns, text)
         IN  IF state + 1 <= Len(m) THEN Candidate(m[state + 1]) ELSE NoCandidate

\* readline calls complete(text, 0), complete(text, 1), ... until it returns None
RECURSIVE Collect(_, _, _, _)
Collect(h, ns, text, state) ==
    LET r == Complete(h, ns, text, state)
    IN  IF r.some THEN <<r.s>> \o Collect(h, ns, text, state + 1) ELSE <<>>

\* The partial identifiers completion is invoked on in the modelled sessions.
Texts == { <<>>, <<"v">>, n_vs, <<"x">>, <<"y">>, <<"r">>, <<"r", "l">> }

----------------------------------------------------------------------------
\* The launcher

NoLine == [kind |-> "none"]
Idle == [invoked |-> FALSE, text |-> <<>>, candidates |-> <<>>]

LinuxBanner == "use linux..."
DarwinBanner == "use darwin..."
LinuxBinding == "tab: complete"
DarwinBinding == "bind ^I rl_complete"

\* sys.platform == 'linux' in place of startswith
IsLinux_Exact(p) == p = <<"l", "i", "n", "u", "x">>

IsLinux(p) == StartsWith(p, <<"l", "i", "n", "u", "x">>)
IsDarwin(p) == p = <<"d", "a", "r", "w", "i", "n">>

\* The dict the launcher's variable vs refers to.
VsTarget(h) == Get(h.G, n_vs).id

Init ==
    /\ platform \in Platforms
    /\ pc = "L8"
    /\ heap = [G |-> ModuleGlobals, B |-> BuiltinsDict]
    /\ completer = "none"
    /\ bindings = <<>>
    /\ stdout = <<>>
    /\ consoleLocals = "none"
    /\ prompts = 0
    /\ lastEvent = "none"
    /\ lastLine = NoLine
    /\ prevHeap = [G |-> ModuleGlobals, B |-> BuiltinsDict]
    /\ display = <<>>
    /\ diag = ""
    /\ exitCode = -1
    /\ completion = Idle

\* vs = dict(globals()): the namespace is a copy of the launcher's globals
BindVs_Copy ==
    /\ pc = "L8"
    /\ heap' = [G |-> Set(heap.G, n_vs, DictRef("C")), B |-> heap.B, C |-> heap.G]
    /\ pc' = "L9"
    /\ UNCHANGED <<platform, completer, bindings, stdout, consoleLocals, prompts,
                   lastEvent, lastLine, prevHeap, display, diag, exitCode, completion>>

\* line 8: vs = globals()
BindVs ==
    /\ pc = "L8"
    /\ heap' = [heap EXCEPT !.G = Set(@, n_vs, DictRef(GlobalsRef))]
    /\ pc' = "L9"
    /\ UNCHANGED <<platform, completer, bindings, stdout, consoleLocals, prompts,
                   lastEvent, lastLine, prevHeap, display, diag, exitCode, completion>>

\* line 9: vs.update(locals())
UpdateLocals ==
    /\ pc = "L9"
    /\ heap' = [heap EXCEPT ![VsTarget(heap)] = Update(@, heap[LocalsRef])]
    /\ pc' = "L10"
    /\ UNCHANGED <<platform, completer, bindings, stdout, consoleLocals, prompts,
                   lastEvent, lastLine, prevHeap, display, diag, exitCode, completion>>

\* the completer is never registered
SetCompleter_Skipped ==
    /\ pc = "L10"
    /\ pc' = "L11"
    /\ UNCHANGED <<platform, heap, completer, bindings, stdout, consoleLocals, prompts,
                   lastEvent, lastLine, prevHeap, display, diag, exitCode, completion>>

\* Completer(dict(vs)): the completer is bound to a snapshot of the namespace
SetCompleter_Snapshot ==
    /\ pc = "L10"
    /\ heap' = [G |-> heap.G, B |-> heap.B, C |-> heap[VsTarget(heap)]]
    /\ completer' = "C"
    /\ pc' = "L11"
    /\ UNCHANGED <<platform, bindings, stdout, consoleLocals, prompts,
                   lastEvent, lastLine, prevHeap, display, diag, exitCode, completion>>

\* line 10: readline.set_completer(rlcompleter.Completer(vs).complete)
SetCompleter ==
    /\ pc = "L10"
    /\ completer' = VsTarget(heap)
    /\ pc' = "L11"
    /\ UNCHANGED <<platform, heap, bindings, stdout, consoleLocals, prompts,
                   lastEvent, lastLine, prevHeap, display, diag, exitCode, completion>>

\* lines 11-13: if sys.platform.startswith('linux')
LinuxBranch ==
    /\ pc = "L11"
    /\ IsLinux(platform)
    /\ stdout' = Append(stdout, LinuxBanner)
    /\ bindings' = Append(bindings, LinuxBinding)
    /\ pc' = "L18"
    /\ UNCHANGED <<platform, heap, completer, consoleLocals, prompts,
                   lastEvent, lastLine, prevHeap, display, diag, exitCode, completion>>

\* lines 14-16: elif sys.platform == 'darwin'
DarwinBranch ==
    /\ pc = "L11"
    /\ ~IsLinux(platform)
    /\ IsDarwin(platform)
    /\ stdout' = Append(stdout, DarwinBanner)
    /\ bindings' = Append(bindings, DarwinBinding)
    /\ pc' = "L18"
    /\ UNCHANGED <<platform, heap, completer, consoleLocals, prompts,
                   lastEvent, lastLine, prevHeap, display, diag, exitCode, completion>>

\* neither condition holds: the if statement has no else
NoBranch ==
    /\ pc = "L11"
    /\ ~IsLinux(platform)
    /\ ~IsDarwin(platform)
    /\ pc' = "L18"
    /\ UNCHANGED <<platform, heap, completer, bindings, stdout, consoleLocals, prompts,
                   lastEvent, lastLine, prevHeap, display, diag, exitCode, completion>>

\* line 18: code.InteractiveConsole(vs).interact() up to its first prompt
Interact ==
    /\ pc = "L18"
    /\ consoleLocals' = VsTarget(heap)
    /\ prompts' = 1
    /\ pc' = "prompt"
    /\ UNCHANGED <<platform, heap, completer, bindings, stdout,
                   lastEvent, lastLine, prevHeap, display, diag, exitCode, completion>>

\* runcode without its except clause: every exception leaves the loop
Propagates_AnyError(exc) == exc # ""

\* runcode: SystemExit is re-raised, everything else is reported by showtraceback
Propagates(exc) == exc = "SystemExit"

\* The status of a process ended by an exception that reaches the top level.
ProcessStatus(exc, line) == IF exc = "SystemExit" THEN ExitStatus(line.arg) ELSE 1

\* One pass of the loop on a submitted line: push, runsource, runcode, and either
\* the next prompt or the exception leaving interact() and the launcher.
Push(line) ==
    /\ pc = "prompt"
    /\ prompts <= MaxLines
    /\ LET r == RunSource(line, heap, consoleLocals)
       IN  /\ heap' = r.heap
           /\ display' = r.out
           /\ IF Propagates(r.exc)
              THEN /\ pc' = "done"
                   /\ exitCode' = ProcessStatus(r.exc, line)
                   /\ diag' = ""
                   /\ prompts' = prompts
              ELSE /\ pc' = "prompt"
                   /\ exitCode' = exitCode
                   /\ diag' = r.exc
                   /\ prompts' = prompts + 1
    /\ lastEvent' = "line"
    /\ lastLine' = line
    /\ prevHeap' = heap
    /\ completion' = Idle
    /\ UNCHANGED <<platform, completer, bindings, stdout, consoleLocals>>

\* interact without its except KeyboardInterrupt: the interrupt ends the process
Interrupt_EndsLoop ==
    /\ pc = "prompt"
    /\ prompts <= MaxLines
    /\ pc' = "done"
    /\ lastEvent' = "interrupt"
    /\ lastLine' = NoLine
    /\ prevHeap' = heap
    /\ display' = <<>>
    /\ diag' = "KeyboardInterrupt"
    /\ exitCode' = 1
    /\ completion' = Idle
    /\ UNCHANGED <<platform, heap, completer, bindings, stdout, consoleLocals, prompts>>

\* KeyboardInterrupt while reading: reported, buffer reset, next prompt
Interrupt ==
    /\ pc = "prompt"
    /\ prompts <= MaxLines
    /\ lastEvent' = "interrupt"
    /\ lastLine' = NoLine
    /\ prevHeap' = heap
    /\ display' = <<>>
    /\ diag' = "KeyboardInterrupt"
    /\ prompts' = prompts + 1
    /\ completion' = Idle
    /\ UNCHANGED <<platform, pc, heap, completer, bindings, stdout, consoleLocals, exitCode>>

\* EOFError from input(): the loop breaks, interact() returns, the launcher ends
EndOfInput ==
    /\ pc = "prompt"
    /\ pc' = "done"
    /\ lastEvent' = "eof"
    /\ lastLine' = NoLine
    /\ prevHeap' = heap
    /\ display' = <<>>
    /\ diag' = ""
    /\ exitCode' = 0
    /\ completion' = Idle
    /\ UNCHANGED <<platform, heap, completer, bindings, stdout, consoleLocals, prompts>>

\* The user asks readline for completions of text at the prompt.
TabComplete(text) ==
    /\ pc = "prompt"
    /\ completer # "none"
    /\ completion' = [invoked |-> TRUE, text |-> text,
                      candidates |-> Collect(heap, completer, text, 0)]
    /\ UNCHANGED <<platform, pc, heap, completer, bindings, stdout, consoleLocals, prompts,
                   lastEvent, lastLine, prevHeap, display, diag, exitCode>>

Next ==
    \/ BindVs
    \/ UpdateLocals
    \/ SetCompleter
    \/ LinuxBranch
    \/ DarwinBranch
    \/ NoBranch
    \/ Interact
    \/ \E i \in 1..Len(Lines) : Push(Lines[i])
    \/ Interrupt
    \/ EndOfInput
    \/ \E text \in Texts : TabComplete(text)

Spec == Init /\ [][Next]_vars

----------------------------------------------------------------------------
\* Vocabulary of the properties

\* The names a line's own text binds or deletes.
RECURSIVE WalrusTargets(_)
WalrusTargets(e) ==
    CASE e.op = "walrus" -> {e.id} \cup WalrusTargets(e.e)
      [] e.op = "add" -> WalrusTargets(e.l) \cup WalrusTargets(e.r)
      [] OTHER -> {}
BindTargets(line) ==
    CASE line.kind = "assign" -> {line.target} \cup WalrusTargets(line.value)
      [] line.kind = "del" -> {line.target}
      [] line.kind = "expr" -> WalrusTargets(line.value)
      [] OTHER -> {}

InSession == consoleLocals # "none"
\* The last event was a submitted line that ran to its end without an error.
LineSucceeded == lastEvent = "line" /\ pc = "prompt" /\ diag = ""
\* The last event was a submitted line that raises an error (other than the exit
\* request SystemExit) in the namespace it was submitted to.
LineFailed ==
    /\ lastEvent = "line"
    /\ RunSource(lastLine, prevHeap, consoleLocals).exc \notin {"", "SystemExit"}

\* Every name of dict d outside the set keeps, in the namespace now, the value it has in d.
KeepsBindings(d, except) ==
    \A i \in 1..Len(d) :
        d[i].k \notin except =>
            Resolve(heap, consoleLocals, d[i].k) = Outcome("", d[i].v, heap)

----------------------------------------------------------------------------
\* C1: a name bound by an assignment in one submitted line resolves to that value in
\* every later line of the session until a later line rebinds or deletes it: each line
\* leaves every name it does not itself bind or delete as it was, a successful
\* assignment makes its target resolve to the assigned value, an input that is not a
\* line changes nothing, and the console keeps executing in the same dict object.
C1_NamespacePersists ==
    InSession =>
        /\ consoleLocals = "G"
        /\ lastEvent = "line" => KeepsBindings(prevHeap[consoleLocals], BindTargets(lastLine))
        /\ lastEvent \in {"interrupt", "eof"} => heap = prevHeap
        /\ (LineSucceeded /\ lastLine.kind = "assign") =>
               Resolve(heap, consoleLocals, lastLine.target).val
                   = Eval(lastLine.value, prevHeap, consoleLocals).val

\* x was bound to 5 by an earlier line and the line just submitted, x, found it.
C1_Witness ==
    /\ InSession
    /\ lastEvent = "line"
    /\ lastLine = Expr(Name(n_x))
    /\ Has(prevHeap.G, n_x)
    /\ Get(prevHeap.G, n_x) = IntVal(5)
    /\ display = <<"5">>

----------------------------------------------------------------------------
\* C2 as stated: a statement that raises an error prints a diagnostic, leaves the
\* namespace unchanged and does not end the session.
C2_ErrorLeavesNamespaceUnchanged ==
    LineFailed => diag # "" /\ pc = "prompt" /\ heap = prevHeap

\* The state a failing statement leaves behind.
C2_ErrorContained ==
    LineFailed =>
        /\ diag = RunSource(lastLine, prevHeap, consoleLocals).exc
        /\ pc = "prompt"
        /\ exitCode = -1
        /\ display = <<>>
        /\ KeepsBindings(prevHeap[consoleLocals], BindTargets(lastLine))
        /\ BindTargets(lastLine) = {} => heap = prevHeap
        /\ heap.B = prevHeap.B
\* A valid statement submitted right after a failing one.
C2_NextStatementRuns ==
    (LineFailed /\ lastEvent' = "line" /\ prompts' = prompts + 1 /\ diag' = "") =>
        /\ prevHeap' = heap
        /\ lastLine'.kind = "assign" =>
               Resolve(heap', consoleLocals, lastLine'.target).val
                   = Eval(lastLine'.value, heap, consoleLocals).val
        /\ lastLine'.kind = "expr" =>
               LET v == Eval(lastLine'.value, heap, consoleLocals).val
               IN  display' = IF v = None THEN <<>> ELSE Repr(v)

\* C2 as amended: a statement that raises an error prints a diagnostic and does not end
\* the session; the prompt reappears; the namespace is unchanged except for the names
\* the statement itself bound before the point of failure (a statement that binds
\* nothing, such as a reference to the undefined name y, leaves it unchanged); builtins
\* are unchanged; and a valid statement submitted next executes against the namespace
\* as the failing statement left it.
C2_Amended == [] C2_ErrorContained /\ [][C2_NextStatementRuns]_vars

\* With x bound, the line y raised NameError and the session is back at the prompt.
C2_Witness ==
    /\ LineFailed
    /\ lastLine = Expr(Name(n_y))
    /\ diag = "NameError"
    /\ Has(heap.G, n_x)
    /\ pc = "prompt"

----------------------------------------------------------------------------
\* C3: the loop ends only on end-of-input or an explicit exit: whenever it has ended,
\* the last event was end-of-input or a sys.exit line whose sys resolved to the sys
\* module; a line that raised an error, and a keyboard interrupt, leave the session
\* at the prompt with the process still running.
C3_EndsOnlyOnEofOrExit ==
    /\ pc = "done" =>
          \/ lastEvent = "eof"
          \/ /\ lastEvent = "line"
             /\ lastLine.kind = "sysexit"
             /\ Resolve(prevHeap, consoleLocals, n_sys).val = Module("sys")
    /\ (LineFailed \/ lastEvent = "interrupt") => pc = "prompt" /\ exitCode = -1
    /\ (lastEvent = "line" /\ lastLine.kind # "sysexit") => pc = "prompt"

\* The loop has ended on an explicit exit after at least one other line.
C3_Witness ==
    /\ pc = "done"
    /\ lastEvent = "line"
    /\ lastLine.kind = "sysexit"
    /\ prompts > 1

----------------------------------------------------------------------------
\* How the process has ended.
C4_Ended ==
    /\ lastEvent = "eof" => pc = "done" /\ exitCode = 0
    /\ (pc = "done" /\ lastEvent = "line") =>
          /\ lastLine.arg = None => exitCode = 0
          /\ (lastLine.arg # None /\ lastLine.arg.v \in 0..255) => exitCode = lastLine.arg.v
    /\ pc # "done" => exitCode = -1
\* The step that ends the loop writes no prompt, and no step follows it.
C4_NoPromptAfterEnd == (pc = "done" \/ pc' = "done") => prompts' = prompts

\* C4: end-of-input ends the loop, no prompt is written by that step or after it, and
\* the process ends with status 0; an exit status (0..255) given to an explicit exit
\* is the status of the process, and an exit without argument gives 0.
C4_EofAndExitCode == [] C4_Ended /\ [][C4_NoPromptAfterEnd]_vars

\* End-of-input arrived after two prompts were answered.
C4_Witness ==
    /\ lastEvent = "eof"
    /\ pc = "done"
    /\ prompts = 3
    /\ exitCode = 0

----------------------------------------------------------------------------
\* Reading of "Linux-family" and "Darwin" in the properties, letter by letter.
LinuxFamily(p) ==
    /\ Len(p) >= 5
    /\ p[1] = "l" /\ p[2] = "i" /\ p[3] = "n" /\ p[4] = "u" /\ p[5] = "x"
DarwinHost(p) ==
    /\ Len(p) = 6
    /\ p[1] = "d" /\ p[2] = "a" /\ p[3] = "r" /\ p[4] = "w" /\ p[5] = "i" /\ p[6] = "n"

Count(seq, x) == Cardinality({i \in 1..Len(seq) : seq[i] = x})
PastBranch == pc \in {"L18", "prompt", "done"}

\* C5: once the platform branch is passed, 'use linux...' has been printed exactly once
\* on a Linux-family host and never elsewhere, 'use darwin...' exactly once on the
\* Darwin host and never elsewhere, nothing on any other host; and on every host the
\* launcher goes on: a branch can be taken at line 11 and the loop entered at line 18.
C5_BannerByPlatform ==
    /\ PastBranch =>
          /\ Count(stdout, LinuxBanner) = (IF LinuxFamily(platform) THEN 1 ELSE 0)
          /\ Count(stdout, DarwinBanner) = (IF DarwinHost(platform) THEN 1 ELSE 0)
          /\ Len(stdout) = Count(stdout, LinuxBanner) + Count(stdout, DarwinBanner)
    /\ ~PastBranch => stdout = <<>>
    /\ pc = "L11" => ENABLED (LinuxBranch \/ DarwinBranch \/ NoBranch)
    /\ pc = "L18" => ENABLED Interact

\* A Linux-family host other than 'linux' itself is in its session with one banner.
C5_Witness ==
    /\ LinuxFamily(platform)
    /\ Len(platform) > 5
    /\ pc = "prompt"
    /\ stdout = <<LinuxBanner>>

----------------------------------------------------------------------------
\* The entries of the completer's namespace that text is a prefix of.
PrefixedEntries(text) ==
    {i \in 1..Len(heap[completer]) : Slice(heap[completer][i].k, Len(text)) = text}

PrefixOfKeyword(text) == \E j \in 1..Len(KwList) : Slice(KwList[j], Len(text)) = text
PrefixOfOtherBuiltin(text, name) ==
    \E j \in 1..Len(heap.B) :
        heap.B[j].k # name /\ Slice(heap.B[j].k, Len(text)) = text

----------------------------------------------------------------------------
\* C7: after a well-formed line that ran without error, what the console displayed is
\* the repr of the value of the expression evaluated in the namespace accumulated
\* before the line (nothing when the value is None), and nothing for a statement
\* that is no expression; 2 + 2 displays 4 and x, after x was bound to 5, displays 5.
C7_DisplayedIsValue ==
    LineSucceeded =>
        /\ lastLine.kind = "expr" =>
              LET r == Eval(lastLine.value, prevHeap, consoleLocals)
              IN  /\ r.exc = ""
                  /\ display = IF r.val = None THEN <<>> ELSE Repr(r.val)
        /\ lastLine.kind # "expr" => display = <<>>
        /\ lastLine = Expr(Add(Const(IntVal(2)), Const(IntVal(2)))) => display = <<"4">>
        /\ (lastLine = Expr(Name(n_x)) /\ Get(prevHeap.G, n_x) = IntVal(5)) => display = <<"5">>

\* (x := 1) + y was evaluated with y bound to 5 by earlier lines and displayed 6.
C7_Witness ==
    /\ LineSucceeded
    /\ lastLine = Expr(Add(Walrus(n_x, Const(IntVal(1))), Name(n_y)))
    /\ Get(prevHeap.G, n_y) = IntVal(5)
    /\ display = <<"6">>

----------------------------------------------------------------------------
ExpectedBindings(p) ==
    IF LinuxFamily(p) THEN <<"tab: complete">>
    ELSE IF DarwinHost(p) THEN <<"bind ^I rl_complete">>
    ELSE <<>>

\* C8: the key binding depends on the platform alone and at most one is installed:
\* 'tab: complete' on a Linux-family host, 'bind ^I rl_complete' on the Darwin host,
\* none and no message on any other; the completion callback is registered on every
\* host; and from the first prompt on both are as they were set before it.
C8_BindingByPlatform ==
    /\ Len(bindings) <= 1
    /\ PastBranch => bindings = ExpectedBindings(platform) /\ completer # "none"
    /\ ~PastBranch => bindings = <<>>
    /\ prompts >= 1 => bindings = ExpectedBindings(platform) /\ completer = consoleLocals
    /\ (PastBranch /\ ~LinuxFamily(platform) /\ ~DarwinHost(platform)) =>
          stdout = <<>> /\ (prompts <= 1 => diag = "")

\* The Darwin host stands at a prompt with its binding installed.
C8_Witness ==
    /\ DarwinHost(platform)
    /\ pc = "prompt"
    /\ bindings = <<DarwinBinding>>
    /\ completer = "G"

----------------------------------------------------------------------------
\* A candidate for the name: the name itself, or the name with its call postfix.
Offered(name) ==
    \E j \in 1..Len(completion.candidates) :
        completion.candidates[j] \in {name, name \o <<"(">>, name \o <<"(", ")">>}
DeletedJustNow(name) ==
    lastEvent = "line" /\ lastLine.kind = "del" /\ diag = "" /\ lastLine.target = name

\* C9 as stated: completer and console share one namespace; every name bound in it is
\* offered for each partial identifier (at least one character) that is a prefix of
\* it, and a name just deleted is no longer offered.
C9_CompletionFollowsNamespace ==
    /\ InSession => completer = consoleLocals
    /\ (completion.invoked /\ completion.text # <<>>) =>
          /\ \A i \in PrefixedEntries(completion.text) : Offered(heap[completer][i].k)
          /\ \A name \in {n_x, n_vars} :
                (DeletedJustNow(name) /\ Slice(name, Len(completion.text)) = completion.text)
                    => ~Offered(name)

\* C9 as amended: completer and console share one namespace; every name bound in it is
\* offered for each of its non-empty prefixes, and a name just deleted is no longer
\* offered unless it is also the name of a keyword or of a builtin, which the completer
\* goes on offering.
C9_CompletionFollowsNamespaceAmended ==
    /\ InSession => completer = consoleLocals
    /\ (completion.invoked /\ completion.text # <<>>) =>
          /\ \A i \in PrefixedEntries(completion.text) : Offered(heap[completer][i].k)
          /\ \A name \in {n_x, n_vars} :
                ( /\ DeletedJustNow(name)
                  /\ Slice(name, Len(completion.text)) = completion.text
                  /\ ~Has(heap.B, name)
                  /\ \A j \in 1..Len(KwList) : KwList[j] # name )
                    => ~Offered(name)

\* x was deleted by the last line and completion on x offers nothing.
C9_Witness ==
    /\ DeletedJustNow(n_x)
    /\ completion.invoked
    /\ completion.text = <<"x">>
    /\ completion.candidates = <<>>

----------------------------------------------------------------------------
\* C10: from the first prompt on the console executes in the launcher's global dict
\* itself; at the first prompt every name the launcher bound (code, readline,
\* rlcompleter, sys) resolves to the launcher's value and vs to that very dict; and a
\* name the user assigns is bound, to the assigned value, in the launcher's globals.
C10_NamespaceIsLauncherGlobals ==
    prompts >= 1 =>
        /\ consoleLocals = "G"
        /\ (prompts = 1 /\ lastEvent = "none") =>
              /\ KeepsBindings(ModuleGlobals, {})
              /\ Resolve(heap, consoleLocals, n_vs).val = DictRef("G")
              /\ Len(heap.G) = Len(ModuleGlobals) + 1
        /\ (LineSucceeded /\ lastLine.kind = "assign") =>
              /\ Has(heap.G, lastLine.target)
              /\ Get(heap.G, lastLine.target) = Eval(lastLine.value, prevHeap, "G").val

\* The user's x = 5 is now a global of the launcher, next to its own vs.
C10_Witness ==
    /\ LineSucceeded
    /\ lastLine = Assign(n_x, Const(IntVal(5)))
    /\ Get(heap.G, n_x) = IntVal(5)
    /\ Get(heap.G, n_vs) = DictRef("G")

====
